---- MODULE Spec2Model ----
(***************************************************************************)
(* Resume parser (app.py: flat-file archive, app2.py: ChromaDB            *)
(* collection).  Texts are sequences of one-character strings, so that     *)
(* fence stripping, JSON serialisation and JSON parsing are computed on    *)
(* the characters, the way re.sub / json.dumps / json.loads compute them.  *)
(***************************************************************************)
EXTENDS Integers, Sequences, FiniteSets, TLC

\* ------------------------------------------------------------------------
\* Bounds of the model
\* ------------------------------------------------------------------------
\* pipeline runs (uploads) per behaviour
MaxRuns == 2
\* entries already in the ChromaDB collection when the program starts: 0..MaxPrior
MaxPrior == 10

\* ------------------------------------------------------------------------
\* Characters
\* ------------------------------------------------------------------------
DQ == "\""
NL == "\n"
\* the backtick, which a TLA+ string literal cannot hold, named by a token
BQ == "BACKTICK"
SP == " "

\* str.strip() and the JSON decoder's WHITESPACE, restricted to the alphabet used
IsSpace(c) == c \in {SP, NL}

\* ------------------------------------------------------------------------
\* Python values: None, bool, int, str, list, dict, all of one record shape
\*   t: the type, s: the characters (str, int digits, bool literal),
\*   m: a dict's items in insertion order, a: a list's elements
\* ------------------------------------------------------------------------
None == [t |-> "None", s |-> <<>>, m |-> <<>>, a |-> <<>>]
Str(s) == [t |-> "str", s |-> s, m |-> <<>>, a |-> <<>>]
PyInt(s) == [t |-> "int", s |-> s, m |-> <<>>, a |-> <<>>]
Bool(s) == [t |-> "bool", s |-> s, m |-> <<>>, a |-> <<>>]
List(a) == [t |-> "list", s |-> <<>>, m |-> <<>>, a |-> a]
Dict(m) == [t |-> "dict", s |-> <<>>, m |-> m, a |-> <<>>]

TRUE_LIT == <<"t", "r", "u", "e">>
FALSE_LIT == <<"f", "a", "l", "s", "e">>
NULL_LIT == <<"n", "u", "l", "l">>

\* Python truthiness, as "if x:" and "if not x:" evaluate it
Truthy(v) ==
    CASE v.t = "None" -> FALSE
      [] v.t = "bool" -> v.s = TRUE_LIT
      [] v.t = "int" -> v.s # <<"0">>
      [] v.t = "str" -> v.s # <<>>
      [] v.t = "list" -> v.a # <<>>
      [] v.t = "dict" -> v.m # <<>>

\* ------------------------------------------------------------------------
\* Text helpers
\* ------------------------------------------------------------------------
RECURSIVE Join(_)
\* "".join(parts)
Join(parts) == IF parts = <<>> THEN <<>> ELSE Head(parts) \o Join(Tail(parts))

RECURSIVE LStrip(_)
LStrip(s) == IF s # <<>> /\ IsSpace(Head(s)) THEN LStrip(Tail(s)) ELSE s

RECURSIVE RStrip(_)
RStrip(s) ==
    IF s # <<>> /\ IsSpace(s[Len(s)]) THEN RStrip(SubSeq(s, 1, Len(s) - 1)) ELSE s

\* str.strip()
Strip(s) == RStrip(LStrip(s))

\* whether text s holds the characters w at position i (1-based)
StartsAt(s, i, w) ==
    /\ i + Len(w) - 1 <= Len(s)
    /\ \A k \in 1..Len(w) : s[i + k - 1] = w[k]

FENCE == <<BQ, BQ, BQ>>
JSON_TAG == <<"j", "s", "o", "n">>

RECURSIVE ReSubFenceFrom(_, _)
\* re.sub(FENCE_RE, "", s), FENCE_RE being three backticks then (json)?: every
\* leftmost non-overlapping match of three backticks, greedily followed by
\* "json", is removed, wherever it stands
ReSubFenceFrom(s, i) ==
    IF i > Len(s) THEN <<>>
    ELSE IF StartsAt(s, i, FENCE)
         THEN IF StartsAt(s, i + 3, JSON_TAG)
              THEN ReSubFenceFrom(s, i + 7)
              ELSE ReSubFenceFrom(s, i + 3)
         ELSE <<s[i]>> \o ReSubFenceFrom(s, i + 1)

ReSubFence(s) == ReSubFenceFrom(s, 1)

\* ------------------------------------------------------------------------
\* json.dumps: default separators (", ", ": "), or indent=4
\* ------------------------------------------------------------------------
IndentWidth == 4

Spaces(n) == [k \in 1..n |-> SP]

\* newline and the indentation of nesting level "level"
NewLine(level) == <<NL>> \o Spaces(IndentWidth * level)

RECURSIVE DumpsAt(_, _, _)
RECURSIVE DumpItems(_, _, _, _)
RECURSIVE DumpElems(_, _, _, _)

DumpString(s) == <<DQ>> \o s \o <<DQ>>

ItemSep(indent, level) == IF indent THEN <<",">> \o NewLine(level) ELSE <<",", SP>>

DumpItems(m, k, indent, level) ==
    IF k > Len(m) THEN <<>>
    ELSE (IF k > 1 THEN ItemSep(indent, level) ELSE <<>>)
         \o DumpString(m[k][1]) \o <<":", SP>> \o DumpsAt(m[k][2], indent, level)
         \o DumpItems(m, k + 1, indent, level)

DumpElems(a, k, indent, level) ==
    IF k > Len(a) THEN <<>>
    ELSE (IF k > 1 THEN ItemSep(indent, level) ELSE <<>>)
         \o DumpsAt(a[k], indent, level)
         \o DumpElems(a, k + 1, indent, level)

DumpsAt(v, indent, level) ==
    CASE v.t = "None" -> NULL_LIT
      [] v.t = "bool" -> v.s
      [] v.t = "int" -> v.s
      [] v.t = "str" -> DumpString(v.s)
      [] v.t = "list" ->
           IF v.a = <<>> THEN <<"[", "]">>
           ELSE <<"[">> \o (IF indent THEN NewLine(level + 1) ELSE <<>>)
                \o DumpElems(v.a, 1, indent, level + 1)
                \o (IF indent THEN NewLine(level) ELSE <<>>) \o <<"]">>
      [] v.t = "dict" ->
           IF v.m = <<>> THEN <<"{", "}">>
           ELSE <<"{">> \o (IF indent THEN NewLine(level + 1) ELSE <<>>)
                \o DumpItems(v.m, 1, indent, level + 1)
                \o (IF indent THEN NewLine(level) ELSE <<>>) \o <<"}">>

\* json.dumps(v)
Dumps(v) == DumpsAt(v, FALSE, 0)
\* json.dumps(v, indent=4) / json.dump(v, file, indent=4)
DumpsIndent(v) == DumpsAt(v, TRUE, 0)

\* ------------------------------------------------------------------------
\* json.loads: a parse result is [ok, v, i]: success, the value, the next index
\* ------------------------------------------------------------------------
Fail == [ok |-> FALSE, v |-> None, i |-> 0]
Ok(v, i) == [ok |-> TRUE, v |-> v, i |-> i]

RECURSIVE SkipWs(_, _)
SkipWs(s, i) == IF i <= Len(s) /\ IsSpace(s[i]) THEN SkipWs(s, i + 1) ELSE i

Digits == {"0", "1", "2", "3", "4", "5", "6", "7", "8", "9"}

RECURSIVE DigitsEnd(_, _)
\* the index after the run of digits starting at i
DigitsEnd(s, i) == IF i <= Len(s) /\ s[i] \in Digits THEN DigitsEnd(s, i + 1) ELSE i

RECURSIVE StringEnd(_, _)
\* the index of the closing quote of a string whose content starts at i, or 0:
\* the strict decoder rejects a control character inside a string
StringEnd(s, i) ==
    IF i > Len(s) THEN 0
    ELSE IF s[i] = DQ THEN i
    ELSE IF s[i] = NL THEN 0
    ELSE StringEnd(s, i + 1)

\* py_scanstring, s[i] being the opening quote and e the closing one (0: none)
StringUpTo(s, i, e) == IF e = 0 THEN Fail ELSE Ok(Str(SubSeq(s, i + 1, e - 1)), e + 1)

ParseString(s, i) == StringUpTo(s, i, StringEnd(s, i + 1))

\* the NUMBER_RE match at i: 0, or a non-zero digit and the digits after it
ParseNumber(s, i) ==
    IF s[i] = "0" THEN Ok(PyInt(<<"0">>), i + 1)
    ELSE Ok(PyInt(SubSeq(s, i, DigitsEnd(s, i) - 1)), DigitsEnd(s, i))

\* dict item assignment: a repeated key keeps its place and takes the new value
SetItem(m, k, v) ==
    IF \E j \in 1..Len(m) : m[j][1] = k
    THEN [j \in 1..Len(m) |-> IF m[j][1] = k THEN <<k, v>> ELSE m[j]]
    ELSE Append(m, <<k, v>>)

RECURSIVE ParseValue(_, _)
RECURSIVE ParseMembers(_, _, _)
RECURSIVE AfterKey(_, _, _)
RECURSIVE AfterColon(_, _, _, _)
RECURSIVE AfterMember(_, _, _, _)
RECURSIVE NextMember(_, _, _)
RECURSIVE ParseElements(_, _, _)
RECURSIVE AfterElement(_, _, _)
RECURSIVE NextElement(_, _, _)

\* JSONObject after "{" or ",": s[i] must open a key
ParseMembers(s, i, acc) ==
    IF i > Len(s) \/ s[i] # DQ THEN Fail ELSE AfterKey(s, ParseString(s, i), acc)

\* the key is read: a colon must follow
AfterKey(s, key, acc) ==
    IF ~key.ok THEN Fail ELSE AfterColon(s, key.v.s, SkipWs(s, key.i), acc)

AfterColon(s, k, c, acc) ==
    IF c > Len(s) \/ s[c] # ":" THEN Fail
    ELSE AfterMember(s, k, ParseValue(s, SkipWs(s, c + 1)), acc)

\* the member's value is read: pairs[key] = value
AfterMember(s, k, val, acc) ==
    IF ~val.ok THEN Fail ELSE NextMember(s, SkipWs(s, val.i), SetItem(acc, k, val.v))

\* "}" ends the object, "," brings the next member
NextMember(s, n, acc) ==
    IF n > Len(s) THEN Fail
    ELSE IF s[n] = "}" THEN Ok(Dict(acc), n + 1)
    ELSE IF s[n] = "," THEN ParseMembers(s, SkipWs(s, n + 1), acc)
    ELSE Fail

\* JSONArray after "[" or ",": a value must follow
ParseElements(s, i, acc) == AfterElement(s, ParseValue(s, i), acc)

AfterElement(s, val, acc) ==
    IF ~val.ok THEN Fail ELSE NextElement(s, SkipWs(s, val.i), Append(acc, val.v))

\* "]" ends the array, "," brings the next element
NextElement(s, n, acc) ==
    IF n > Len(s) THEN Fail
    ELSE IF s[n] = "]" THEN Ok(List(acc), n + 1)
    ELSE IF s[n] = "," THEN ParseElements(s, SkipWs(s, n + 1), acc)
    ELSE Fail

\* JSONObject / JSONArray, j being the first non-blank index after the bracket
ParseObject(s, j) ==
    IF j <= Len(s) /\ s[j] = "}" THEN Ok(Dict(<<>>), j + 1) ELSE ParseMembers(s, j, <<>>)

ParseArray(s, j) ==
    IF j <= Len(s) /\ s[j] = "]" THEN Ok(List(<<>>), j + 1) ELSE ParseElements(s, j, <<>>)

\* scanner.py_make_scanner's _scan_once at index i
ParseValue(s, i) ==
    IF i > Len(s) THEN Fail
    ELSE IF s[i] = DQ THEN ParseString(s, i)
    ELSE IF s[i] = "{" THEN ParseObject(s, SkipWs(s, i + 1))
    ELSE IF s[i] = "[" THEN ParseArray(s, SkipWs(s, i + 1))
    ELSE IF StartsAt(s, i, NULL_LIT) THEN Ok(None, i + 4)
    ELSE IF StartsAt(s, i, TRUE_LIT) THEN Ok(Bool(TRUE_LIT), i + 4)
    ELSE IF StartsAt(s, i, FALSE_LIT) THEN Ok(Bool(FALSE_LIT), i + 5)
    ELSE IF s[i] \in Digits THEN ParseNumber(s, i)
    ELSE Fail

\* JSONDecoder.decode: the value must be followed by nothing but whitespace
DecodeEnd(s, r) ==
    IF r.ok /\ SkipWs(s, r.i) > Len(s) THEN [ok |-> TRUE, v |-> r.v]
    ELSE [ok |-> FALSE, v |-> None]

\* json.loads(s): [ok, v]; ok = FALSE is json.JSONDecodeError (no value, or
\* "Extra data" after the value)
Loads(s) == DecodeEnd(s, ParseValue(s, SkipWs(s, 1)))

\* ------------------------------------------------------------------------
\* str.replace(' ', '_') and str.lower()
\* ------------------------------------------------------------------------
UpperLetters ==
    <<"A", "B", "C", "D", "E", "F", "G", "H", "I", "J", "K", "L", "M",
      "N", "O", "P", "Q", "R", "S", "T", "U", "V", "W", "X", "Y", "Z">>
LowerLetters ==
    <<"a", "b", "c", "d", "e", "f", "g", "h", "i", "j", "k", "l", "m",
      "n", "o", "p", "q", "r", "s", "t", "u", "v", "w", "x", "y", "z">>

LowerChar(c) ==
    IF \E k \in 1..Len(UpperLetters) : UpperLetters[k] = c
    THEN LowerLetters[CHOOSE k \in 1..Len(UpperLetters) : UpperLetters[k] = c]
    ELSE c

Lower(s) == [k \in 1..Len(s) |-> LowerChar(s[k])]
ReplaceSpaces(s) == [k \in 1..Len(s) |-> IF s[k] = SP THEN "_" ELSE s[k]]

NAME == <<"n", "a", "m", "e">>
UNKNOWN == <<"U", "n", "k", "n", "o", "w", "n">>

\* dict.get(key, default)
Get(d, key, default) ==
    IF \E j \in 1..Len(d.m) : d.m[j][1] = key
    THEN d.m[CHOOSE j \in 1..Len(d.m) : d.m[j][1] = key][2]
    ELSE default

\* ------------------------------------------------------------------------
\* The program's functions.  A library call's outcome is an input:
\*   pdf outcome   [raises, pages]   pages: per-page text (None or str)
\*   groq outcome  [raises, content]
\* ------------------------------------------------------------------------
\* page.extract_text() or ""
PageText(p) == IF Truthy(p) THEN p.s ELSE <<>>

\* the joined text when it holds a non-whitespace character, else None
TextOrNone(text) == IF Strip(text) # <<>> THEN Str(text) ELSE None

\* [ret, warned]; a raised exception is caught and warned about
extract_text_with_pdfplumber(out) ==
    IF out.raises THEN [ret |-> None, warned |-> TRUE]
    ELSE [ret |-> TextOrNone(Join([k \in 1..Len(out.pages) |-> PageText(out.pages[k])])),
          warned |-> FALSE]

extract_text_with_fitz(out) ==
    IF out.raises THEN [ret |-> None, warned |-> TRUE]
    ELSE [ret |-> TextOrNone(Join([k \in 1..Len(out.pages) |-> out.pages[k].s])),
          warned |-> FALSE]

\* [ret, err]: the response text, or None after reporting the caught exception
extract_entities_with_groq(out) ==
    IF out.raises THEN [ret |-> None, err |-> TRUE]
    ELSE [ret |-> out.content, err |-> FALSE]

\* lines 58-61: the parsed value, or the JSONDecodeError reported and None
DecodeOrNone(r) ==
    IF r.ok THEN [raised |-> FALSE, err |-> FALSE, ret |-> r.v]
    ELSE [raised |-> FALSE, err |-> TRUE, ret |-> None]

\* [raised, err, ret].  re.sub on a non-str raises TypeError, which the handler
\* (json.JSONDecodeError only) does not catch
convert_llm_output_to_dict(llm_output) ==
    IF llm_output.t # "str" THEN [raised |-> TRUE, err |-> FALSE, ret |-> None]
    ELSE DecodeOrNone(Loads(Strip(ReSubFence(llm_output.s))))

\* mutant: the JSONDecodeError of json.load is not handled, nothing is read
LoadUnguarded(r) == r.v

\* lines 66-69: json.load(file), [] on json.JSONDecodeError
LoadOrEmpty(r) == IF r.ok THEN r.v ELSE List(<<>>)

\* mutant: the archive is never read back, every call starts from []
ReadArchiveEmpty(f) == List(<<>>)

\* save_to_json, lines 64-71.  f is the archive file: None when absent, else
\* Str(content).  The value read: [] when the file is absent or its content does
\* not parse; a parsed value is taken as is
ReadArchive(f) == IF f.t = "None" THEN List(<<>>) ELSE LoadOrEmpty(Loads(f.s))

\* save_to_json, lines 73-76: [raised, file].  append on a value that is no
\* list raises AttributeError before the file is opened for writing
WriteArchive(resumes, data, f) ==
    IF resumes.t # "list" THEN [raised |-> TRUE, file |-> f]
    ELSE [raised |-> FALSE, file |-> Str(DumpsIndent(List(Append(resumes.a, data))))]

save_to_json(data, f) == WriteArchive(ReadArchive(f), data, f)

\* ------------------------------------------------------------------------
\* ChromaDB collection: a sequence of entries [id, document, metadata] in
\* insertion order
\* ------------------------------------------------------------------------
\* collection.peek(): limit defaults to 10
PeekLimit == 10

Ids(coll) == {coll[k].id : k \in 1..Len(coll)}

\* collection.peek()["ids"]
PeekIds(coll) ==
    {coll[k].id : k \in 1..(IF Len(coll) < PeekLimit THEN Len(coll) ELSE PeekLimit)}

\* .replace(' ', '_').lower() of the name; [raised, key]: .replace of a non-str
\* raises AttributeError
KeyOfName(name) ==
    IF name.t # "str" THEN [raised |-> TRUE, key |-> <<>>]
    ELSE [raised |-> FALSE, key |-> Lower(ReplaceSpaces(name.s))]

\* line 84; .get of a non-dict raises AttributeError
CandidateName(resume_dict) ==
    IF resume_dict.t # "dict" THEN [raised |-> TRUE, key |-> <<>>]
    ELSE KeyOfName(Get(resume_dict, NAME, Str(UNKNOWN)))

\* mutant: the existence check never finds the key
AlreadyExistsNever(candidate_name, coll) == FALSE

\* line 87
AlreadyExists(candidate_name, coll) == candidate_name \in PeekIds(coll)

\* lines 84-89, k being CandidateName's result; an exception is caught at line 98
CheckKey(k, coll) ==
    IF k.raised THEN [msgs |-> <<"err_chroma">>, key |-> None, pass |-> FALSE]
    ELSE IF AlreadyExists(k.key, coll)
    THEN [msgs |-> <<"warn_duplicate">>, key |-> Str(k.key), pass |-> FALSE]
    ELSE [msgs |-> <<>>, key |-> Str(k.key), pass |-> TRUE]

\* lines 80-89, c being convert_llm_output_to_dict's result
CheckParsed(c, coll) ==
    IF c.raised THEN [msgs |-> <<"err_chroma">>, key |-> None, pass |-> FALSE]
    ELSE IF ~Truthy(c.ret)
    THEN [msgs |-> (IF c.err THEN <<"err_json">> ELSE <<>>) \o <<"err_parse_failed">>,
          key |-> None, pass |-> FALSE]
    ELSE CheckKey(CandidateName(c.ret), coll)

\* save_to_chromadb, lines 75-89: [msgs, key, pass]: what is reported, the
\* derived key (None when none was derived), and whether the call goes on to
\* collection.add
CheckChroma(data, coll) ==
    IF ~Truthy(data) THEN [msgs |-> <<"err_no_data">>, key |-> None, pass |-> FALSE]
    ELSE CheckParsed(convert_llm_output_to_dict(data), coll)

\* what collection.add does with an id the collection already holds: depending
\* on the chromadb release it raises, or ignores the record
AddDuplicateOutcomes == {"raise", "ignore"}

\* lines 91-96: the entry added for resume_dict under the id key
Entry(resume_dict, key) ==
    [id |-> key,
     document |-> Dumps(resume_dict),
     metadata |-> Get(resume_dict, NAME, Str(UNKNOWN))]

\* save_to_chromadb, lines 91-99: [msgs, coll]
AddChroma(data, key, coll, dup) ==
    IF key \in Ids(coll)
    THEN IF dup = "raise" THEN [msgs |-> <<"err_chroma">>, coll |-> coll]
         ELSE [msgs |-> <<"write_saved">>, coll |-> coll]
    ELSE [msgs |-> <<"write_saved">>,
          coll |-> Append(coll, Entry(convert_llm_output_to_dict(data).ret, key))]

\* lines 91-99 after the check c, a being AddChroma's result
AfterAdd(c, a) == [msgs |-> c.msgs \o a.msgs, key |-> c.key, coll |-> a.coll]

\* the call after the check c
AfterCheck(c, data, coll, dup) ==
    IF ~c.pass THEN [msgs |-> c.msgs, key |-> c.key, coll |-> coll]
    ELSE AfterAdd(c, AddChroma(data, c.key.s, coll, dup))

\* save_to_chromadb(data): [msgs, key, coll]
save_to_chromadb(data, coll, dup) == AfterCheck(CheckChroma(data, coll), data, coll, dup)

\* ------------------------------------------------------------------------
\* Inputs
\* ------------------------------------------------------------------------
SKILLS == <<"s", "k", "i", "l", "l", "s">>

R_JD == Dict(<< <<NAME, Str(<<"J", " ", "D">>)>> >>)
R_jd == Dict(<< <<NAME, Str(<<"j", "_", "d">>)>>, <<SKILLS, List(<<Str(<<"g", "o">>)>>)>> >>)
R_X == Dict(<< <<NAME, Str(<<"X">>)>> >>)
R_NoName == Dict(<< <<SKILLS, List(<<>>)>> >>)
R_Empty == Dict(<<>>)
\* a name holding a fence marker, bare and tagged
R_Fence == Dict(<< <<NAME, Str(<<"a", BQ, BQ, BQ, "b">>)>> >>)
R_FenceTag == Dict(<< <<NAME, Str(<<BQ, BQ, BQ, "j", "s", "o", "n", "c">>)>> >>)
R_NumName == Dict(<< <<NAME, PyInt(<<"7">>)>> >>)

\* StructuredRecords
Records == {R_JD, R_jd, R_X, R_NoName, R_Empty, R_Fence, R_FenceTag, R_NumName}

\* a payload wrapped in a tagged fence, as the model usually answers
Fenced(payload) == FENCE \o JSON_TAG \o <<NL>> \o payload \o <<NL>> \o FENCE

\* texts that are no JSON: prose, the empty answer, a truncated object
Prose == <<"I", " ", "c", "a", "n", "n", "o", "t">>
Truncated == <<"{", DQ, "n", "a", "m", "e", DQ, ":", SP, DQ, "J", DQ>>
MalformedTexts == {Prose, <<>>, Truncated, Fenced(Prose)}

\* JSON values that are no object
NonObjects ==
    {List(<<PyInt(<<"1">>)>>), List(<<>>), Str(<<"x">>), Str(<<>>),
     PyInt(<<"1">>), PyInt(<<"0">>), Bool(TRUE_LIT), Bool(FALSE_LIT), None}

\* what the model may answer
Responses ==
    {Dumps(r) : r \in Records}
    \cup {Fenced(DumpsIndent(R_JD)), Fenced(Dumps(R_X))}
    \cup MalformedTexts
    \cup {Dumps(v) : v \in NonObjects}

GroqOutcomes ==
    {[raises |-> TRUE, content |-> None]}
    \cup {[raises |-> FALSE, content |-> Str(t)] : t \in Responses}

\* pdfplumber: the open or a page raises; no page; a page without text (None);
\* whitespace only; text
PlumberOutcomes ==
    {[raises |-> TRUE, pages |-> <<>>],
     [raises |-> FALSE, pages |-> <<>>],
     [raises |-> FALSE, pages |-> <<None>>],
     [raises |-> FALSE, pages |-> <<Str(<<SP>>), None, Str(<<NL>>)>>],
     [raises |-> FALSE, pages |-> <<Str(<<"J", SP>>), None, Str(<<"D", NL>>)>>]}

FitzOutcomes ==
    {[raises |-> TRUE, pages |-> <<>>],
     [raises |-> FALSE, pages |-> <<>>],
     [raises |-> FALSE, pages |-> <<Str(<<SP, NL>>), Str(<<>>)>>],
     [raises |-> FALSE, pages |-> <<Str(<<SP, "J">>), Str(<<"D">>)>>]}

\* the id of the i-th entry the collection holds at start: i times "x"
PriorName(i) == [k \in 1..i |-> "x"]
PriorRecord(i) == Dict(<< <<NAME, Str(PriorName(i))>> >>)
\* the collection after this program stored PriorRecord(1..n)
PriorCollection(n) ==
    [i \in 1..n |-> [id |-> CandidateName(PriorRecord(i)).key,
                     document |-> Dumps(PriorRecord(i)),
                     metadata |-> Get(PriorRecord(i), NAME, Str(UNKNOWN))]]

\* the archive file at start: absent, empty, cut short, a JSON object, an archive
InitialFiles ==
    {None, Str(<<>>), Str(<<"[", NL>>), Str(Dumps(R_Empty)),
     Str(DumpsIndent(List(<<R_X>>)))}

\* ------------------------------------------------------------------------
\* State
\* ------------------------------------------------------------------------
VARIABLES
    app,             \* "app" (app.py) or "app2" (app2.py)
    pc,              \* the script's position in the current run
    runs,            \* runs started
    temp_exists,     \* whether temp_resume.pdf exists
    resume_text,
    extracted_info,
    structured_data,
    candidate_name,  \* app2: the key save_to_chromadb derived in this run, or None
    file,            \* extracted_resumes.json: None when absent, else Str(content)
    collection,      \* the resumes2 collection
    ui,              \* the messages of the current run (st.info, st.error, ...)
    calls,           \* history: the components called in the current run
    plumber_out,     \* history: the pdfplumber outcome of the current run
    fitz_out,        \* history: the fitz outcome of the current run
    groq_out,        \* history: the groq outcome of the current run
    file0,           \* history: the archive file when the current run started
    coll0,           \* history: the collection when the current run started
    saved,           \* history: the records save_to_json was called with
    fresh,           \* history: the archive file was absent at start
    wpc,             \* concurrent writers: position of each
    wdata,           \* concurrent writers: argument of each call
    wlocal,          \* concurrent writers: the local "resumes" / derived key
    wmsgs,           \* concurrent writers: what each reported
    overlap          \* history: per sink, whether two calls overlapped

pvars == <<app, pc, runs, temp_exists, resume_text, extracted_info, structured_data,
           candidate_name, ui, calls, plumber_out, fitz_out, groq_out, file0, coll0,
           saved, fresh>>
wvars == <<wpc, wdata, wlocal, wmsgs, overlap>>
vars == <<pvars, wvars, file, collection>>

NoOutcome == [raises |-> FALSE, pages |-> <<>>]
NoGroq == [raises |-> FALSE, content |-> None]

JsonWriters == {1, 2}
ChromaWriters == {3, 4}
Writers == JsonWriters \cup ChromaWriters

WritersIdle ==
    /\ wpc = [w \in Writers |-> "start"]
    /\ wdata = [w \in Writers |-> None]
    /\ wlocal = [w \in Writers |-> None]
    /\ wmsgs = [w \in Writers |-> <<>>]
    /\ overlap = [k \in {"json", "chroma"} |-> FALSE]

PipelineIdle ==
    /\ pc = "idle"
    /\ runs = 0
    /\ temp_exists = FALSE
    /\ resume_text = None
    /\ extracted_info = None
    /\ structured_data = None
    /\ candidate_name = None
    /\ ui = <<>>
    /\ calls = <<>>
    /\ plumber_out = NoOutcome
    /\ fitz_out = NoOutcome
    /\ groq_out = NoGroq
    /\ file0 = file
    /\ coll0 = collection
    /\ saved = <<>>
    /\ fresh = (file = None)

Init ==
    /\ app \in {"app", "app2"}
    /\ file \in (IF app = "app" THEN InitialFiles ELSE {None})
    /\ collection \in (IF app = "app2" THEN {PriorCollection(n) : n \in 0..MaxPrior}
                       ELSE {<<>>})
    /\ PipelineIdle
    /\ WritersIdle

\* ------------------------------------------------------------------------
\* The script, lines 86-124 (app.py) and 117-154 (app2.py)
\* ------------------------------------------------------------------------
\* mutant: the fallback is tried whatever pdfplumber returned
FallbackAlways(text) == TRUE

\* line 97 / 128: if not resume_text
NeedsFallback(text) == ~Truthy(text)
\* line 101 / 132: if not resume_text
NoTextExtracted(text) == ~Truthy(text)
\* mutant: the normalized value is saved whatever it is
PersistAlways(data) == TRUE

\* app.py line 108: if structured_data
ShouldPersist(data) == Truthy(data)
\* app2.py line 138: if extracted_info
HasResponse(info) == Truthy(info)

\* a rerun of the script with an uploaded file: lines 86-92
Upload ==
    /\ pc \in {"idle", "done", "crashed"}
    /\ runs < MaxRuns
    /\ runs' = runs + 1
    /\ temp_exists' = TRUE
    /\ ui' = <<"info_uploaded">>
    /\ calls' = <<>>
    /\ resume_text' = None
    /\ extracted_info' = None
    /\ structured_data' = None
    /\ candidate_name' = None
    /\ plumber_out' = NoOutcome
    /\ fitz_out' = NoOutcome
    /\ groq_out' = NoGroq
    /\ file0' = file
    /\ coll0' = collection
    /\ pc' = "plumber"
    /\ UNCHANGED <<app, file, collection, saved, fresh, wvars>>

\* line 95
Plumber ==
    /\ pc = "plumber"
    /\ \E out \in PlumberOutcomes :
       \E r \in {extract_text_with_pdfplumber(out)} :
         /\ plumber_out' = out
         /\ resume_text' = r.ret
         /\ ui' = ui \o (IF r.warned THEN <<"warn_pdfplumber_failed">> ELSE <<>>)
    /\ calls' = Append(calls, "pdfplumber")
    /\ pc' = "fallback"
    /\ UNCHANGED <<app, runs, temp_exists, extracted_info, structured_data,
                   candidate_name, fitz_out, groq_out, file0, coll0, saved, fresh,
                   file, collection, wvars>>

\* lines 97-99
Fitz ==
    /\ pc = "fallback"
    /\ NeedsFallback(resume_text)
    /\ \E out \in FitzOutcomes :
       \E r \in {extract_text_with_fitz(out)} :
         /\ fitz_out' = out
         /\ resume_text' = r.ret
         /\ ui' = ui \o <<"warn_trying_fitz">>
                     \o (IF r.warned THEN <<"warn_fitz_failed">> ELSE <<>>)
    /\ calls' = Append(calls, "fitz")
    /\ pc' = "extracted"
    /\ UNCHANGED <<app, runs, temp_exists, extracted_info, structured_data,
                   candidate_name, plumber_out, groq_out, file0, coll0, saved, fresh,
                   file, collection, wvars>>

\* the script is at line 101
AtTextCheck == pc = "extracted" \/ (pc = "fallback" /\ ~NeedsFallback(resume_text))

\* lines 101-102
NoText ==
    /\ AtTextCheck
    /\ NoTextExtracted(resume_text)
    /\ ui' = Append(ui, "err_no_text")
    /\ pc' = "cleanup"
    /\ UNCHANGED <<app, runs, temp_exists, resume_text, extracted_info, structured_data,
                   candidate_name, calls, plumber_out, fitz_out, groq_out, file0, coll0,
                   saved, fresh, file, collection, wvars>>

\* line 105
Groq ==
    /\ AtTextCheck
    /\ ~NoTextExtracted(resume_text)
    /\ \E out \in GroqOutcomes :
       \E r \in {extract_entities_with_groq(out)} :
         /\ groq_out' = out
         /\ extracted_info' = r.ret
         /\ ui' = ui \o (IF r.err THEN <<"err_groq">> ELSE <<>>)
    /\ calls' = Append(calls, "groq")
    /\ pc' = "got_info"
    /\ UNCHANGED <<app, runs, temp_exists, resume_text, structured_data, candidate_name,
                   plumber_out, fitz_out, file0, coll0, saved, fresh, file, collection,
                   wvars>>

\* app.py line 106; an uncaught exception ends the run where it is raised
Convert ==
    /\ app = "app"
    /\ pc = "got_info"
    /\ \E r \in {convert_llm_output_to_dict(extracted_info)} :
       /\ structured_data' = r.ret
       /\ ui' = ui \o (IF r.err THEN <<"err_json">> ELSE <<>>)
       /\ pc' = IF r.raised THEN "crashed" ELSE "normalized"
    /\ calls' = Append(calls, "convert")
    /\ UNCHANGED <<app, runs, temp_exists, resume_text, extracted_info, candidate_name,
                   plumber_out, fitz_out, groq_out, file0, coll0, saved, fresh, file,
                   collection, wvars>>

\* app.py lines 108-121
SaveJson ==
    /\ app = "app"
    /\ pc = "normalized"
    /\ ShouldPersist(structured_data)
    /\ \E r \in {save_to_json(structured_data, file)} :
       /\ file' = r.file
       /\ ui' = ui \o <<"success_extracted">>
                   \o (IF r.raised THEN <<>> ELSE <<"success_saved">>)
       /\ pc' = IF r.raised THEN "crashed" ELSE "cleanup"
       /\ saved' = IF r.raised THEN saved ELSE Append(saved, structured_data)
    /\ calls' = Append(calls, "save_to_json")
    /\ UNCHANGED <<app, runs, temp_exists, resume_text, extracted_info, structured_data,
                   candidate_name, plumber_out, fitz_out, groq_out, file0, coll0, fresh,
                   collection, wvars>>

\* app.py line 108, the condition false
SkipSave ==
    /\ app = "app"
    /\ pc = "normalized"
    /\ ~ShouldPersist(structured_data)
    /\ pc' = "cleanup"
    /\ UNCHANGED <<app, runs, temp_exists, resume_text, extracted_info, structured_data,
                   candidate_name, ui, calls, plumber_out, fitz_out, groq_out, file0,
                   coll0, saved, fresh, file, collection, wvars>>

\* app2.py lines 138-151; chroma_query only reads the collection
SaveChroma ==
    /\ app = "app2"
    /\ pc = "got_info"
    /\ HasResponse(extracted_info)
    /\ \E dup \in AddDuplicateOutcomes :
       \E r \in {save_to_chromadb(extracted_info, collection, dup)} :
         /\ collection' = r.coll
         /\ candidate_name' = r.key
         /\ ui' = ui \o <<"success_extracted">> \o r.msgs
    /\ calls' = Append(calls, "save_to_chromadb")
    /\ pc' = "cleanup"
    /\ UNCHANGED <<app, runs, temp_exists, resume_text, extracted_info, structured_data,
                   plumber_out, fitz_out, groq_out, file0, coll0, saved, fresh, file,
                   wvars>>

\* app2.py line 138, the condition false
SkipChroma ==
    /\ app = "app2"
    /\ pc = "got_info"
    /\ ~HasResponse(extracted_info)
    /\ pc' = "cleanup"
    /\ UNCHANGED <<app, runs, temp_exists, resume_text, extracted_info, structured_data,
                   candidate_name, ui, calls, plumber_out, fitz_out, groq_out, file0,
                   coll0, saved, fresh, file, collection, wvars>>

\* line 124 / 154: os.remove(temp_path)
Cleanup ==
    /\ pc = "cleanup"
    /\ temp_exists' = FALSE
    /\ pc' = "done"
    /\ UNCHANGED <<app, runs, resume_text, extracted_info, structured_data,
                   candidate_name, ui, calls, plumber_out, fitz_out, groq_out, file0,
                   coll0, saved, fresh, file, collection, wvars>>

Next ==
    \/ Upload
    \/ Plumber
    \/ Fitz
    \/ NoText
    \/ Groq
    \/ Convert
    \/ SaveJson
    \/ SkipSave
    \/ SaveChroma
    \/ SkipChroma
    \/ Cleanup

Spec == Init /\ [][Next]_vars

\* ------------------------------------------------------------------------
\* Two sessions calling a sink at once: each call is two steps, the read (or
\* the existence check) and the write (or the add), with nothing held between
\* ------------------------------------------------------------------------
ConcRecords == {R_JD, R_X}
ConcResponses == {Str(Dumps(R_JD)), Str(Dumps(R_jd)), Str(Dumps(R_X))}

Other(w) == CHOOSE v \in Writers : v # w /\ (v \in JsonWriters <=> w \in JsonWriters)

InitConc ==
    /\ app = "app"
    /\ file \in {None, Str(DumpsIndent(List(<<R_jd>>)))}
    /\ collection \in {PriorCollection(n) : n \in 0..1}
    /\ PipelineIdle
    /\ WritersIdle

\* save_to_json, lines 64-71
JsonRead(w) ==
    /\ w \in JsonWriters
    /\ wpc[w] = "start"
    /\ \E data \in ConcRecords : wdata' = [wdata EXCEPT ![w] = data]
    /\ wlocal' = [wlocal EXCEPT ![w] = ReadArchive(file)]
    /\ wpc' = [wpc EXCEPT ![w] = "mid"]
    /\ overlap' = [overlap EXCEPT !["json"] = @ \/ wpc[Other(w)] = "mid"]
    /\ UNCHANGED <<wmsgs, file, collection, pvars>>

\* save_to_json, lines 73-78
JsonWrite(w) ==
    /\ w \in JsonWriters
    /\ wpc[w] = "mid"
    /\ \E r \in {WriteArchive(wlocal[w], wdata[w], file)} :
         /\ file' = r.file
         /\ wmsgs' = [wmsgs EXCEPT ![w] = IF r.raised THEN <<>> ELSE <<"success_saved">>]
    /\ wpc' = [wpc EXCEPT ![w] = "done"]
    /\ UNCHANGED <<wdata, wlocal, overlap, collection, pvars>>

\* save_to_chromadb, lines 75-89
ChromaCheck(w) ==
    /\ w \in ChromaWriters
    /\ wpc[w] = "start"
    /\ \E data \in ConcResponses :
       \E c \in {CheckChroma(data, collection)} :
         /\ wdata' = [wdata EXCEPT ![w] = data]
         /\ wlocal' = [wlocal EXCEPT ![w] = c.key]
         /\ wmsgs' = [wmsgs EXCEPT ![w] = c.msgs]
         /\ wpc' = [wpc EXCEPT ![w] = IF c.pass THEN "mid" ELSE "done"]
    /\ overlap' = [overlap EXCEPT !["chroma"] = @ \/ wpc[Other(w)] = "mid"]
    /\ UNCHANGED <<file, collection, pvars>>

\* save_to_chromadb, lines 91-99
ChromaAdd(w) ==
    /\ w \in ChromaWriters
    /\ wpc[w] = "mid"
    /\ \E dup \in AddDuplicateOutcomes :
       \E a \in {AddChroma(wdata[w], wlocal[w].s, collection, dup)} :
         /\ collection' = a.coll
         /\ wmsgs' = [wmsgs EXCEPT ![w] = @ \o a.msgs]
    /\ wpc' = [wpc EXCEPT ![w] = "done"]
    /\ UNCHANGED <<wdata, wlocal, overlap, file, pvars>>

NextConc ==
    \E w \in Writers :
        \/ JsonRead(w)
        \/ JsonWrite(w)
        \/ ChromaCheck(w)
        \/ ChromaAdd(w)

SpecConc == InitConc /\ [][NextConc]_vars

\* ------------------------------------------------------------------------
\* Properties
\* ------------------------------------------------------------------------
Called(c) == \E k \in 1..Len(calls) : calls[k] = c
Reported(m) == \E k \in 1..Len(ui) : ui[k] = m
TimesReported(m) == Cardinality({k \in 1..Len(ui) : ui[k] = m})
RunEnded == pc \in {"done", "crashed"}

\* C1: every run that staged temp_resume.pdf has removed it by the time the
\* run ends, whichever path the run took.
C1_StagedFileRemoved == RunEnded => ~temp_exists

\* C2: an upsert whose derived key is already an identifier of the collection
\* reports the duplicate and leaves the collection unchanged, however many
\* entries the collection holds; otherwise exactly one entry with that
\* identifier is added.
C2_UpsertDeduplicates ==
    (app = "app2" /\ pc \in {"cleanup", "done"} /\ candidate_name # None) =>
        IF candidate_name.s \in Ids(coll0)
        THEN Reported("warn_duplicate") /\ collection = coll0
        ELSE /\ Len(collection) = Len(coll0) + 1
             /\ SubSeq(collection, 1, Len(coll0)) = coll0
             /\ collection[Len(collection)].id = candidate_name.s

\* C3: starting from an absent archive file, after N save_to_json calls the
\* file parses to the array of the N records in the order they were appended.
C3_AppendCumulative ==
    (app = "app" /\ fresh) =>
        IF saved = <<>> THEN file = None
        ELSE file.t = "str" /\ Loads(file.s) = [ok |-> TRUE, v |-> List(saved)]

C3_Witness ==
    /\ app = "app" /\ fresh /\ Len(saved) >= 2 /\ saved[1] # saved[2]
    /\ Loads(file.s).v.a[2] = saved[2]

\* the model answered, and its answer is no JSON once the fences are stripped
MalformedResponse ==
    /\ Called("groq")
    /\ ~groq_out.raises
    /\ ~Loads(Strip(ReSubFence(groq_out.content.s))).ok

\* the normalizer was run on the response
NormalizerRan == Called("convert") \/ Called("save_to_chromadb")

\* C4: on a response that is no JSON after fence stripping the normalizer
\* reports the decoding error instead of raising, and the run leaves the
\* archive file and the collection as they were.
C4_MalformedWritesNothing ==
    MalformedResponse =>
        /\ pc # "crashed"
        /\ file = file0
        /\ collection = coll0
        /\ NormalizerRan => Reported("err_json")
        /\ ~Reported("success_saved") /\ ~Reported("write_saved")

C4_Witness ==
    /\ MalformedResponse /\ pc = "done" /\ Reported("err_json")
    /\ groq_out.content.s = Prose

PlumberFailed == extract_text_with_pdfplumber(plumber_out).ret = None
FitzFailed == extract_text_with_fitz(fitz_out).ret = None

\* C5: fitz is attempted only after pdfplumber failed or returned blank text;
\* the model is called only with non-blank text one of the two returned; when
\* both fail the run reports that no text was found, the model is not called
\* and no sink is touched.
C5_ExtractionOrdering ==
    /\ Called("fitz") => (calls[1] = "pdfplumber" /\ calls[2] = "fitz" /\ PlumberFailed)
    /\ Called("groq") =>
          /\ Called("pdfplumber")
          /\ resume_text.t = "str" /\ Strip(resume_text.s) # <<>>
          /\ resume_text = IF Called("fitz") THEN extract_text_with_fitz(fitz_out).ret
                           ELSE extract_text_with_pdfplumber(plumber_out).ret
    /\ (Called("fitz") /\ PlumberFailed /\ FitzFailed /\ pc \in {"cleanup", "done"}) =>
          /\ Reported("err_no_text")
          /\ ~Called("groq") /\ ~Called("convert")
          /\ ~Called("save_to_json") /\ ~Called("save_to_chromadb")
          /\ file = file0 /\ collection = coll0
    /\ Reported("err_no_text") => (Called("fitz") /\ PlumberFailed /\ FitzFailed)

C5_Witness ==
    /\ pc = "done" /\ Reported("err_no_text")
    /\ calls = <<"pdfplumber", "fitz">>
    /\ plumber_out.pages # <<>> /\ fitz_out.pages # <<>>
    /\ ~temp_exists

\* C6: when the model call fails the run ends as a reported failure: the error
\* is reported once, no unhandled error ends the run, the normalizer is not
\* run on the absent response, and nothing is persisted.
C6_ModelFailureReported ==
    (Called("groq") /\ groq_out.raises /\ pc \in {"normalized", "cleanup", "done", "crashed"}) =>
        /\ pc # "crashed"
        /\ TimesReported("err_groq") = 1
        /\ ~Called("convert")
        /\ file = file0
        /\ collection = coll0

\* C7: the normalizer returns every record r from the serialisation of r, also
\* when a string of r holds a fence marker.
C7_NormalizerRoundTrip ==
    (app = "app" /\ pc = "normalized") =>
        \A r \in Records : extracted_info = Str(Dumps(r)) => structured_data = r

\* C8: in the flat-file pipeline a normalized value is appended to the archive
\* if and only if it is an object at the top level.
C8_PersistIffObject ==
    (app = "app" /\ pc \in {"cleanup", "done"} /\ Called("convert")) =>
        (Called("save_to_json") <=> structured_data.t = "dict")

\* C9: when the archive file exists and its content does not parse,
\* save_to_json does not abort: afterwards the file parses to the one-element
\* array holding the new record, and success is reported.
C9_CorruptArchiveRecovered ==
    (app = "app" /\ Called("save_to_json") /\ file0.t = "str" /\ ~Loads(file0.s).ok) =>
        /\ pc # "crashed"
        /\ Reported("success_saved")
        /\ file.t = "str"
        /\ Loads(file.s) = [ok |-> TRUE, v |-> List(<<structured_data>>)]

C9_Witness ==
    /\ app = "app" /\ Called("save_to_json") /\ pc = "done"
    /\ file0 = Str(<<"[", NL>>)
    /\ Loads(file.s).v = List(<<structured_data>>)

\* the records the archive file held at start
InitialArchive == ReadArchive(file0).a
BothJsonDone == \A w \in JsonWriters : wpc[w] = "done" /\ wmsgs[w] = <<"success_saved">>
\* both appends reported success and the archive gained one record only
LostUpdate ==
    /\ BothJsonDone
    /\ Len(Loads(file.s).v.a) = Len(InitialArchive) + 1
\* both upserts derived the same key and passed the existence check, neither
\* has inserted yet
BothPassedCheck ==
    /\ \A w \in ChromaWriters : wpc[w] = "mid"
    /\ wlocal[3] = wlocal[4]
\* both upserts are over, derived the same key, and neither was skipped
NeitherSkipped ==
    /\ \A w \in ChromaWriters : wpc[w] = "done" /\ wlocal[w] # None
    /\ wlocal[3] = wlocal[4]
    /\ \A w \in ChromaWriters : wmsgs[w] # <<"warn_duplicate">>

\* C10: with calls that do not overlap, two appends that report success leave
\* both records in the archive after the earlier ones, and of two upserts with
\* the same key the second is skipped; the lost update and the double pass need
\* overlapping calls, and with them they are reachable (C10_Witness).
C10_SerializedSafe ==
    /\ (BothJsonDone /\ ~overlap["json"]) =>
          /\ Loads(file.s).ok
          /\ SubSeq(Loads(file.s).v.a, 1, Len(InitialArchive)) = InitialArchive
          /\ {SubSeq(Loads(file.s).v.a, Len(InitialArchive) + 1, Len(Loads(file.s).v.a))}
               \subseteq {<<wdata[1], wdata[2]>>, <<wdata[2], wdata[1]>>}
    /\ LostUpdate => overlap["json"]
    /\ ~overlap["chroma"] => (~BothPassedCheck /\ ~NeitherSkipped)

C10_Witness ==
    /\ LostUpdate
    /\ wdata[1] # wdata[2]
    /\ BothPassedCheck
    /\ wdata[3] # wdata[4]

====
